---- MODULE Spec2Model ----
(***************************************************************************)
(* setup-odin, src/index.js: one run of the action.                        *)
(*                                                                         *)
(* run() is an async function on the single JavaScript thread.  It calls   *)
(* two async functions without awaiting either (restoreCache or pullOdin,  *)
(* and pullOdinBuildDependencies), joins them with Promise.all, and then   *)
(* either returns (confirmed cache hit) or runs the build script.          *)
(*                                                                         *)
(* An action of this module is one turn of the event loop: either a        *)
(* synchronous stretch of run(), or the return of one external operation   *)
(* (cache restore, git, brew, which, apt, build script) together with the  *)
(* code that resumes after its `await`.  A continuation of run() that is   *)
(* ready (a settled Promise.all) is a microtask: it runs before the return *)
(* of any other external operation is handled (MacrotaskMayRun).           *)
(***************************************************************************)
EXTENDS Integers, Sequences, FiniteSets, TLC

VARIABLES
    platform,     \* os.platform(), fixed for the run
    config,       \* what common.getInputs() will find: [ok, value]
    inputs,       \* the `inputs` constant of run()
    runPc,        \* position of run(): start, callA, callB, join, build, end
    terminal,     \* none, CONFIRMED_HIT, DONE, FAILED
    buildOutcome, \* how the build command's exec settled
    aPc,          \* restore/clone branch: idle, restoring, pulling, cloning, resolved, rejected
    aVal,         \* value the restore/clone promise resolved to (cacheSuccess)
    aErr,         \* error the restore/clone promise rejected with
    restoredKey,  \* the `restoredKey` constant of restoreCache()
    pullResult,   \* how `git pull` settled in pullUpdates()
    bPc,          \* dependency branch: idle, brew, which, apt, resolved, rejected
    bErr,         \* error the dependency promise rejected with
    whichResult,  \* how io.which settled (linux)
    installOutcome, \* how the brew / apt exec settled
    joinState,    \* the Promise.all promise: pending, fulfilled, rejected
    joinErr,      \* its rejection reason
    rejections,   \* errors the two promises rejected with, in order of rejection
    outputs,      \* values passed to core.setOutput('cache-hit', v), in order
    savedState,   \* values passed to core.saveState('cache-hit', v), in order
    failures,     \* messages passed to core.setFailed, in order
    log           \* external operations invoked, in order: [op, args]

vars == << platform, config, inputs, runPc, terminal, buildOutcome,
           aPc, aVal, aErr, restoredKey, pullResult, bPc, bErr,
           whichResult, installOutcome, joinState, joinErr, rejections,
           outputs, savedState, failures, log >>

envVars  == << platform, config >>
runVars  == << runPc, terminal, buildOutcome >>
aVars    == << aPc, aVal, aErr, restoredKey, pullResult >>
bVars    == << bPc, bErr, whichResult, installOutcome >>
joinVars == << joinState, joinErr, rejections >>
sinkVars == << outputs, savedState, failures >>

----------------------------------------------------------------------------
(* Bounds and input sets *)

\* largest exit code an external command returns in the model
MaxExitCode == 2

ExitCodes == 0..MaxExitCode

\* darwin, linux and win32 are the cases of the two switches; freebsd stands
\* for every platform that falls to `default`
Platforms == {"darwin", "linux", "win32", "freebsd"}

BuildTypes == {"debug", "release"}

LlvmVersions == {"14", "17"}

Repository == "https://github.com/odin-lang/Odin"

OdinVersion == "dev-2024-01"

InputsSet ==
    [ repository  : {Repository},
      odinVersion : {OdinVersion},
      llvmVersion : LlvmVersions,
      buildType   : BuildTypes,
      cacheCheck  : BOOLEAN ]

NoInputs ==
    [ repository |-> "", odinVersion |-> "", llvmVersion |-> "",
      buildType |-> "", cacheCheck |-> FALSE ]

----------------------------------------------------------------------------
(* Values *)

\* an argument word; T(a, b) is the template string `a${b}`, and
\* T3(a, b, c) is `a${b}c`
W(s) == << s >>

T(a, b) == << a, b >>

T3(a, b, c) == << a, b, c >>

Call(op, args) == [ op |-> op, args |-> args ]

\* errors: `code` is the exit code embedded in the message, -1 when the
\* message embeds none (or embeds `undefined`)
Err(kind, code) == [ kind |-> kind, code |-> code ]

NoError == Err("none", -1)

\* getInputs() throws on malformed configuration
ConfigError == Err("Config", -1)

\* `Operating system ${os.platform()} is not supported by setup-odin`
UnsupportedError == Err("Unsupported", -1)

\* `Git clone failed with exit code: ${code}, are you sure that version exists?`
CloneError(code) == Err("GitClone", code)

\* `Installing Odin dependencies failed with exit code: ${code}`
InstallError(code) == Err("Install", code)

NoCodeBuildError(code) == Err("Build", -1)

\* `Building Odin failed with exit code: ${buildExitCode}`
BuildError(code) == Err("Build", code)

\* the rejection of @actions/exec when the process exits nonzero:
\* `The process '...' failed with exit code ${code}`
ExecError(code) == Err("Exec", code)

\* An exec() promise settles in one of two ways.  It resolves with the exit
\* code; @actions/exec without ignoreReturnCode rejects instead when the
\* code is nonzero.  index.js tests the resolved code against 0, so both
\* ways are admitted.
ExecOutcomes ==
    [ settle : {"resolve"}, code : ExitCodes ]
        \cup [ settle : {"reject"}, code : ExitCodes \ {0} ]

NoOutcome == [ settle |-> "none", code |-> -1 ]

UpToDate == "Already up to date."

\* captured standard output of `git pull`, as lines
PullStdouts ==
    { << UpToDate >>,
      << "From origin", UpToDate >>,
      << "Updating 1a2b..3c4d", "Fast-forward" >>,
      << >> }

\* getExecOutput settles like exec, with the captured output
PullOutcomes ==
    [ settle : {"resolve"}, stdout : PullStdouts, code : ExitCodes ]
        \cup [ settle : {"reject"}, stdout : {<< >>}, code : ExitCodes \ {0} ]

NoPull == [ settle |-> "none", stdout |-> << >>, code |-> -1 ]

\* io.which: resolves with the path, resolves with '' (not found, no
\* `check` argument is passed), or rejects
WhichOutcomes == {"found", "notfound", "throws"}

----------------------------------------------------------------------------
(* common.js helpers used by index.js *)

\* common.getInputs(): the Inputs record, or a throw on malformed input
getInputs(cfg) == [ threw |-> ~cfg.ok, value |-> cfg.value ]

\* common.cacheCheck(inputs)
cacheCheck(i) == i.cacheCheck

\* common.composeCacheKey(inputs): a function of the version-affecting
\* fields and the host OS
composeCacheKey(i, os) == << i.repository, i.odinVersion, i.buildType, os >>

\* common.odinPath()
odinPath == "odin"

\* common.cachePaths()
cachePaths == << W(odinPath) >>

\* what cache.restoreCache can resolve to: the key of an entry of the store
\* (the requested one or another), or undefined
NoKey == << >>

RestoredKeys ==
    { composeCacheKey(i, os) : i \in InputsSet, os \in Platforms } \cup { NoKey }

----------------------------------------------------------------------------
(* Pure helpers *)

AlwaysIncludes(stdout, s) == TRUE

\* String.prototype.includes on the captured output, line by line
includes(stdout, s) == \E k \in DOMAIN stdout : stdout[k] = s

Invoked(op) == \E k \in DOMAIN log : log[k].op = op

Count(op) == Cardinality({ k \in DOMAIN log : log[k].op = op })

Contains(seq, v) == \E k \in DOMAIN seq : seq[k] = v

Settled(pc) == pc \in {"resolved", "rejected"}

InProgress(pc) == pc \notin {"idle", "resolved", "rejected"}

\* core.setOutput / core.saveState of the same result: the output takes the
\* boolean, the state takes its string
StateString(b) == IF b THEN "true" ELSE "false"

----------------------------------------------------------------------------
(* Promise.all([a, b]) *)

AllSettledJoin(a, b, err) ==
    IF joinState # "pending"
    THEN [ state |-> joinState, err |-> joinErr ]
    ELSE IF Settled(a) /\ Settled(b)
    THEN [ state |-> "fulfilled", err |-> NoError ]
    ELSE [ state |-> "pending", err |-> NoError ]

DepsIgnoredJoin(a, b, err) ==
    IF joinState # "pending"
    THEN [ state |-> joinState, err |-> joinErr ]
    ELSE IF a = "rejected"
    THEN [ state |-> "rejected", err |-> err ]
    ELSE IF a = "resolved" /\ Settled(b)
    THEN [ state |-> "fulfilled", err |-> NoError ]
    ELSE [ state |-> "pending", err |-> NoError ]

LastRejectionJoin(a, b, err) ==
    IF joinState # "pending"
    THEN [ state |-> joinState, err |-> joinErr ]
    ELSE IF Settled(a) /\ Settled(b) /\ (err # NoError \/ rejections # << >>)
    THEN [ state |-> "rejected",
           err |-> IF err # NoError THEN err ELSE rejections[1] ]
    ELSE IF a = "resolved" /\ b = "resolved"
    THEN [ state |-> "fulfilled", err |-> NoError ]
    ELSE [ state |-> "pending", err |-> NoError ]

FirstOnlyJoin(a, b, err) ==
    IF joinState # "pending"
    THEN [ state |-> joinState, err |-> joinErr ]
    ELSE IF err # NoError
    THEN [ state |-> "rejected", err |-> err ]
    ELSE IF a = "resolved"
    THEN [ state |-> "fulfilled", err |-> NoError ]
    ELSE [ state |-> "pending", err |-> NoError ]

\* The join promise after one of the two promises has moved to position a
\* (resp. b), rejecting with err if err is an error.  Promise.all rejects
\* with the first rejection, at once, and fulfils when both have resolved;
\* once settled it never changes.
PromiseAll(a, b, err) ==
    IF joinState # "pending"
    THEN [ state |-> joinState, err |-> joinErr ]
    ELSE IF err # NoError
    THEN [ state |-> "rejected", err |-> err ]
    ELSE IF a = "resolved" /\ b = "resolved"
    THEN [ state |-> "fulfilled", err |-> NoError ]
    ELSE [ state |-> "pending", err |-> NoError ]

\* the restore/clone promise settles (or moves on) and the join follows
ASettles(pc, val, err) ==
    /\ aPc' = pc
    /\ aVal' = val
    /\ aErr' = err
    /\ joinState' = PromiseAll(pc, bPc, err).state
    /\ joinErr' = PromiseAll(pc, bPc, err).err
    /\ rejections' = IF err # NoError THEN Append(rejections, err) ELSE rejections

\* the dependency promise settles and the join follows
BSettles(pc, err) ==
    /\ bPc' = pc
    /\ bErr' = err
    /\ joinState' = PromiseAll(aPc, pc, err).state
    /\ joinErr' = PromiseAll(aPc, pc, err).err
    /\ rejections' = IF err # NoError THEN Append(rejections, err) ELSE rejections

\* The return of an external operation is handled only when no JavaScript
\* is running and no continuation of run() is ready: run() is suspended at
\* an await whose promise is still pending, or has ended.
MacrotaskMayRun ==
    \/ runPc = "join" /\ joinState = "pending"
    \/ runPc \in {"build", "end"}

----------------------------------------------------------------------------
(* Initial state: before run() is called *)

Init ==
    /\ platform \in Platforms
    /\ config \in ([ ok : {TRUE}, value : InputsSet ]
                     \cup { [ ok |-> FALSE, value |-> NoInputs ] })
    /\ inputs = NoInputs
    /\ runPc = "start"
    /\ terminal = "none"
    /\ buildOutcome = NoOutcome
    /\ aPc = "idle"
    /\ aVal = FALSE
    /\ aErr = NoError
    /\ restoredKey = NoKey
    /\ pullResult = NoPull
    /\ bPc = "idle"
    /\ bErr = NoError
    /\ whichResult = "none"
    /\ installOutcome = NoOutcome
    /\ joinState = "pending"
    /\ joinErr = NoError
    /\ rejections = << >>
    /\ outputs = << >>
    /\ savedState = << >>
    /\ failures = << >>
    /\ log = << >>

----------------------------------------------------------------------------
(* run(), up to the join *)

\* run(): getInputs, odinPath, core.addPath; a throw goes to the catch
Start ==
    /\ runPc = "start"
    /\ IF getInputs(config).threw
       THEN /\ failures' = Append(failures, ConfigError)
            /\ runPc' = "end"
            /\ terminal' = "FAILED"
            /\ UNCHANGED << inputs, log >>
       ELSE /\ inputs' = getInputs(config).value
            /\ log' = Append(log, Call("addPath", << W(odinPath) >>))
            /\ runPc' = "callA"
            /\ UNCHANGED << failures, terminal >>
    /\ UNCHANGED << envVars, buildOutcome, aVars, bVars, joinVars,
                    outputs, savedState >>

\* `git clone` as pullOdin issues it
CloneCall(i) ==
    Call("clone", << W("clone"), W(i.repository), W(odinPath), W("--branch"),
                     W(i.odinVersion), W("--depth=1"), W("--single-branch"),
                     W("--no-tags") >>)

\* `git pull origin <version>` as pullUpdates issues it
PullCall(i) ==
    Call("pull", << W("pull"), W("origin"), W(i.odinVersion) >>)

\* restoreCache(inputs, odinPath) up to `await cache.restoreCache`
StartRestore ==
    /\ log' = Append(log, Call("restore",
                 << cachePaths[1], composeCacheKey(inputs, platform) >>))
    /\ aPc' = "restoring"

\* pullOdin(repository, version) up to `await exec.exec`
StartClone ==
    /\ log' = Append(log, CloneCall(inputs))
    /\ aPc' = "cloning"

CallARestoresAlways ==
    /\ runPc = "callA"
    /\ StartRestore
    /\ runPc' = "callB"
    /\ UNCHANGED << envVars, inputs, terminal, buildOutcome, aVal, aErr,
                    restoredKey, pullResult, bVars, joinVars, sinkVars >>

\* the first element of the Promise.all array: restoreCache when
\* cacheCheck(inputs), pullOdin otherwise
CallA ==
    /\ runPc = "callA"
    /\ IF cacheCheck(inputs) THEN StartRestore ELSE StartClone
    /\ runPc' = "callB"
    /\ UNCHANGED << envVars, inputs, terminal, buildOutcome, aVal, aErr,
                    restoredKey, pullResult, bVars, joinVars, sinkVars >>

\* `brew install llvm@<llvm>`
BrewCall(llvm) == Call("brew", << W("install"), T("llvm@", llvm) >>)

\* core.addPath(`/usr/local/opt/llvm@${llvm}/bin`)
LlvmPathCall(llvm) ==
    Call("addPath", << T3("/usr/local/opt/llvm@", llvm, "/bin") >>)

\* io.which(`llvm-${llvm}`)
WhichCall(llvm) == Call("which", << T("llvm-", llvm) >>)

\* `sudo apt-fast install llvm-<llvm>-dev clang-<llvm>`
AptCall(llvm) ==
    Call("apt", << W("apt-fast"), W("install"), T3("llvm-", llvm, "-dev"),
                   T("clang-", llvm) >>)

StartDependenciesNoDefault ==
    CASE platform = "darwin" ->
           /\ log' = log \o << LlvmPathCall(inputs.llvmVersion),
                               BrewCall(inputs.llvmVersion) >>
           /\ BSettles("brew", NoError)
      [] platform = "linux" ->
           /\ log' = Append(log, WhichCall(inputs.llvmVersion))
           /\ BSettles("which", NoError)
      [] OTHER ->
           /\ log' = log
           /\ BSettles("resolved", NoError)

\* pullOdinBuildDependencies(llvm) up to its first await (darwin: addPath,
\* then brew; linux: which), its return (win32) or its throw (default)
StartDependencies ==
    CASE platform = "darwin" ->
           /\ log' = log \o << LlvmPathCall(inputs.llvmVersion),
                               BrewCall(inputs.llvmVersion) >>
           /\ BSettles("brew", NoError)
      [] platform = "linux" ->
           /\ log' = Append(log, WhichCall(inputs.llvmVersion))
           /\ BSettles("which", NoError)
      [] platform = "win32" ->
           /\ log' = log
           /\ BSettles("resolved", NoError)
      [] OTHER ->
           /\ log' = log
           /\ BSettles("rejected", UnsupportedError)

CallBOnlyWithoutCache ==
    /\ runPc = "callB"
    /\ IF cacheCheck(inputs)
       THEN UNCHANGED << log, bVars, joinVars >>
       ELSE StartDependencies
    /\ runPc' = "join"
    /\ UNCHANGED << whichResult, installOutcome >>
    /\ UNCHANGED << envVars, inputs, terminal, buildOutcome, aVars, sinkVars >>

\* the second element of the Promise.all array, in both branches of
\* `if (common.cacheCheck(inputs))`; then run() reaches the await
CallB ==
    /\ runPc = "callB"
    /\ StartDependencies
    /\ runPc' = "join"
    /\ UNCHANGED << whichResult, installOutcome >>
    /\ UNCHANGED << envVars, inputs, terminal, buildOutcome, aVars, sinkVars >>

----------------------------------------------------------------------------
(* restoreCache, pullUpdates, pullOdin *)

AnyKeyHit(key, rk) == rk # NoKey

NeverKeyHit(key, rk) == FALSE

\* `key === restoredKey`
KeyHit(key, rk) == key = rk

\* restoreCache() after `await cache.restoreCache`: a hit goes on to
\* pullUpdates (git pull), a miss to pullOdin (git clone)
RestoreReturns(rk) ==
    /\ aPc = "restoring"
    /\ MacrotaskMayRun
    /\ restoredKey' = rk
    /\ IF KeyHit(composeCacheKey(inputs, platform), rk)
       THEN /\ log' = Append(log, PullCall(inputs))
            /\ aPc' = "pulling"
       ELSE /\ log' = Append(log, CloneCall(inputs))
            /\ aPc' = "cloning"
    /\ UNCHANGED << envVars, inputs, runVars, aVal, aErr, pullResult, bVars,
                    joinVars, sinkVars >>

\* pullUpdates() after `await exec.getExecOutput`, and restoreCache() after
\* `await pullUpdates`: up to date reports the hit and returns true,
\* otherwise returns false; a rejected exec rejects restoreCache
PullReturns(o) ==
    /\ aPc = "pulling"
    /\ MacrotaskMayRun
    /\ pullResult' = o
    /\ IF o.settle = "reject"
       THEN /\ ASettles("rejected", FALSE, ExecError(o.code))
            /\ UNCHANGED << outputs, savedState >>
       ELSE IF includes(o.stdout, UpToDate)
       THEN /\ outputs' = Append(outputs, TRUE)
            /\ savedState' = Append(savedState, StateString(TRUE))
            /\ ASettles("resolved", TRUE, NoError)
       ELSE /\ ASettles("resolved", FALSE, NoError)
            /\ UNCHANGED << outputs, savedState >>
    /\ UNCHANGED << envVars, inputs, runVars, restoredKey, bVars, failures, log >>

CloneReturnsRetrying(o) ==
    /\ aPc = "cloning"
    /\ MacrotaskMayRun
    /\ IF o.settle = "reject" \/ o.code # 0
       THEN /\ log' = Append(log, CloneCall(inputs))
            /\ UNCHANGED << aPc, aVal, aErr, joinVars >>
       ELSE /\ ASettles("resolved", FALSE, NoError)
            /\ log' = log
    /\ UNCHANGED << envVars, inputs, runVars, restoredKey, pullResult, bVars,
                    sinkVars >>

\* pullOdin() after `await exec.exec('git', ['clone', ...])`, and its caller
\* (restoreCache returns false; run() ignores pullOdin's value)
CloneReturns(o) ==
    /\ aPc = "cloning"
    /\ MacrotaskMayRun
    /\ IF o.settle = "reject"
       THEN ASettles("rejected", FALSE, ExecError(o.code))
       ELSE IF o.code # 0
       THEN ASettles("rejected", FALSE, CloneError(o.code))
       ELSE ASettles("resolved", FALSE, NoError)
    /\ UNCHANGED << envVars, inputs, runVars, restoredKey, pullResult, bVars,
                    sinkVars, log >>

----------------------------------------------------------------------------
(* pullOdinBuildDependencies *)

InstallSettlesIgnoringCode(o) == BSettles("resolved", NoError)

\* the common tail of the darwin and linux cases: `if (code !== 0) throw`
InstallSettles(o) ==
    IF o.settle = "reject"
    THEN BSettles("rejected", ExecError(o.code))
    ELSE IF o.code # 0
    THEN BSettles("rejected", InstallError(o.code))
    ELSE BSettles("resolved", NoError)

\* darwin, after `await exec.exec('brew', ...)`
BrewReturns(o) ==
    /\ bPc = "brew"
    /\ MacrotaskMayRun
    /\ installOutcome' = o
    /\ InstallSettles(o)
    /\ UNCHANGED whichResult
    /\ UNCHANGED << envVars, inputs, runVars, aVars, sinkVars, log >>

\* linux, after io.which settles: the `then` handler sets code = 0 whenever
\* which resolves (with a path or with ''); the `catch` handler runs apt
\* when it rejects
WhichReturns(w) ==
    /\ bPc = "which"
    /\ MacrotaskMayRun
    /\ whichResult' = w
    /\ UNCHANGED installOutcome
    /\ IF w = "throws"
       THEN /\ log' = Append(log, AptCall(inputs.llvmVersion))
            /\ BSettles("apt", NoError)
       ELSE /\ log' = log
            /\ BSettles("resolved", NoError)
    /\ UNCHANGED << envVars, inputs, runVars, aVars, sinkVars >>

\* linux, after `await exec.exec('sudo', ['apt-fast', ...])` in the catch
\* handler
AptReturns(o) ==
    /\ bPc = "apt"
    /\ MacrotaskMayRun
    /\ installOutcome' = o
    /\ InstallSettles(o)
    /\ UNCHANGED whichResult
    /\ UNCHANGED << envVars, inputs, runVars, aVars, sinkVars, log >>

----------------------------------------------------------------------------
(* run(), after the join *)

\* the build command of the second switch; none on other platforms
BuildCommand(os) ==
    CASE os \in {"darwin", "linux"} -> "./build_odin.sh"
      [] os = "win32" -> "./build.bat"
      [] OTHER -> ""

BuildCall(os, i) == Call("build", << W(BuildCommand(os)), W(i.buildType) >>)

AlwaysRebuild(success) == FALSE

\* `if (cacheSuccess) return;` in the caching branch; the other branch has
\* no such test
ReturnsEarly(success) == cacheCheck(inputs) /\ success

\* run() resumes with both promises resolved: return on a confirmed hit,
\* otherwise report cache-hit false and start the build command
JoinResolves ==
    /\ runPc = "join"
    /\ joinState = "fulfilled"
    /\ IF ReturnsEarly(aVal)
       THEN /\ runPc' = "end"
            /\ terminal' = "CONFIRMED_HIT"
            /\ UNCHANGED << outputs, savedState, failures, log >>
       ELSE /\ outputs' = Append(outputs, FALSE)
            /\ savedState' = Append(savedState, StateString(FALSE))
            /\ IF BuildCommand(platform) # ""
               THEN /\ log' = Append(log, BuildCall(platform, inputs))
                    /\ runPc' = "build"
                    /\ UNCHANGED << terminal, failures >>
               ELSE \* no case matches: buildExitCode stays undefined
                    /\ failures' = Append(failures, BuildError(-1))
                    /\ runPc' = "end"
                    /\ terminal' = "FAILED"
                    /\ log' = log
    /\ UNCHANGED << envVars, inputs, buildOutcome, aVars, bVars, joinVars >>

JoinRejectsAndBuilds ==
    /\ runPc = "join"
    /\ joinState = "rejected"
    /\ failures' = Append(failures, joinErr)
    /\ log' = Append(log, BuildCall(platform, inputs))
    /\ runPc' = "build"
    /\ terminal' = "FAILED"
    /\ UNCHANGED << envVars, inputs, buildOutcome, aVars, bVars, joinVars,
                    outputs, savedState >>

\* run() resumes with Promise.all rejected: the catch calls core.setFailed
JoinRejects ==
    /\ runPc = "join"
    /\ joinState = "rejected"
    /\ failures' = Append(failures, joinErr)
    /\ runPc' = "end"
    /\ terminal' = "FAILED"
    /\ UNCHANGED << envVars, inputs, buildOutcome, aVars, bVars, joinVars,
                    outputs, savedState, log >>

\* run() after `await exec.exec(<build command>)`
BuildReturns(o) ==
    /\ runPc = "build"
    /\ MacrotaskMayRun
    /\ buildOutcome' = o
    /\ runPc' = "end"
    /\ IF o.settle = "reject"
       THEN /\ failures' = Append(failures, ExecError(o.code))
            /\ terminal' = "FAILED"
       ELSE IF o.code # 0
       THEN /\ failures' = Append(failures, BuildError(o.code))
            /\ terminal' = "FAILED"
       ELSE /\ failures' = failures
            /\ terminal' = "DONE"
    /\ UNCHANGED << envVars, inputs, aVars, bVars, joinVars, outputs,
                    savedState, log >>

----------------------------------------------------------------------------

Next ==
    \/ Start
    \/ CallA
    \/ CallB
    \/ \E rk \in RestoredKeys : RestoreReturns(rk)
    \/ \E o \in PullOutcomes : PullReturns(o)
    \/ \E o \in ExecOutcomes : CloneReturns(o)
    \/ \E o \in ExecOutcomes : BrewReturns(o)
    \/ \E w \in WhichOutcomes : WhichReturns(w)
    \/ \E o \in ExecOutcomes : AptReturns(o)
    \/ JoinResolves
    \/ JoinRejects
    \/ \E o \in ExecOutcomes : BuildReturns(o)

Spec == Init /\ [][Next]_vars

\* Every external operation eventually returns, and a continuation that is
\* ready to run is run: the event loop leaves no enabled step untaken.
Fairness ==
    /\ WF_vars(Start)
    /\ WF_vars(CallA)
    /\ WF_vars(CallB)
    /\ WF_vars(\E rk \in RestoredKeys : RestoreReturns(rk))
    /\ WF_vars(\E o \in PullOutcomes : PullReturns(o))
    /\ WF_vars(\E o \in ExecOutcomes : CloneReturns(o))
    /\ WF_vars(\E o \in ExecOutcomes : BrewReturns(o))
    /\ WF_vars(\E w \in WhichOutcomes : WhichReturns(w))
    /\ WF_vars(\E o \in ExecOutcomes : AptReturns(o))
    /\ WF_vars(JoinResolves)
    /\ WF_vars(JoinRejects)
    /\ WF_vars(\E o \in ExecOutcomes : BuildReturns(o))

FairSpec == Spec /\ Fairness

----------------------------------------------------------------------------
(* The cases the properties speak of *)

Range(seq) == { seq[k] : k \in DOMAIN seq }

RequestedKey == composeCacheKey(inputs, platform)

\* cache.restoreCache has returned
RestoreDone == cacheCheck(inputs) /\ aPc \notin {"idle", "restoring"}

\* the restored key equals the requested key
CandidateHit == RestoreDone /\ restoredKey = RequestedKey

\* no key, or a key other than the requested one
Miss == RestoreDone /\ restoredKey # RequestedKey

\* git pull returned and printed "Already up to date."
SyncCurrent ==
    pullResult.settle = "resolve" /\ UpToDate \in Range(pullResult.stdout)

\* git pull returned and did not print it
SyncPulled ==
    pullResult.settle = "resolve" /\ UpToDate \notin Range(pullResult.stdout)

ConfirmedHit == CandidateHit /\ SyncCurrent

StaleHit == CandidateHit /\ SyncPulled

CachingDisabled == inputs # NoInputs /\ ~cacheCheck(inputs)

\* run() has gone past the join on the success path
PastJoin == runPc \in {"build", "end"} /\ joinState = "fulfilled"

\* every op1 call precedes every op2 call
Precedes(op1, op2) ==
    \A j, k \in DOMAIN log :
        (log[j].op = op1 /\ log[k].op = op2) => j < k

----------------------------------------------------------------------------
(* Properties *)

\* C1: with caching enabled, once the restored key equals the requested key
\* and git pull reports "Already up to date.", cache-hit is reported true,
\* as output and as saved state, and as nothing else; the build command is
\* not invoked at any point of the run.
C1_ConfirmedHitSkipsBuild ==
    ConfirmedHit =>
        /\ outputs = << TRUE >>
        /\ savedState = << "true" >>
        /\ ~Invoked("build")

C1_Witness ==
    /\ ConfirmedHit
    /\ runPc = "end"
    /\ terminal = "CONFIRMED_HIT"
    /\ bPc = "resolved"

\* C2 as stated: on a stale hit (key matches, git pull brought changes) the
\* finished run has reported cache-hit false and invoked the build command
\* exactly once.
C2_Original ==
    (StaleHit /\ runPc = "end") =>
        /\ outputs = << FALSE >>
        /\ Count("build") = 1

\* C2 amended: on a stale hit the build command is invoked at most once and
\* cache-hit true is never reported; if the dependency installation
\* succeeds, run() goes on to report cache-hit false (output and state) and
\* to invoke the build command exactly once; if it fails, cache-hit is not
\* reported at all and the build command is never invoked.
C2_StaleHitRebuilds ==
    StaleHit =>
        /\ Count("build") <= 1
        /\ ~Contains(outputs, TRUE)
        /\ (PastJoin =>
              /\ outputs = << FALSE >>
              /\ savedState = << "false" >>
              /\ Count("build") = 1)
        /\ (bPc = "rejected" =>
              /\ outputs = << >>
              /\ savedState = << >>
              /\ Count("build") = 0)
        /\ (bPc = "resolved" /\ runPc = "end" => PastJoin)

C2_Witness ==
    /\ StaleHit
    /\ pullResult.code = 0
    /\ runPc = "end"
    /\ terminal = "DONE"
    /\ Count("build") = 1

\* C3 as stated: on a miss the finished run has invoked git clone, has not
\* invoked git pull, and has invoked the build command after the clone.
C3_Original ==
    (Miss /\ runPc = "end") =>
        /\ Invoked("clone")
        /\ ~Invoked("pull")
        /\ Invoked("build")
        /\ Precedes("clone", "build")

\* C3 amended: on a miss git clone is invoked once, with the requested
\* version, git pull is never invoked, and the build command, if invoked,
\* comes after the clone; if the clone and the dependency installation both
\* succeed, run() goes on to invoke the build command; if either fails, the
\* build command is never invoked.
C3_MissClonesThenBuilds ==
    Miss =>
        /\ Count("clone") = 1
        /\ \A k \in DOMAIN log :
              log[k].op = "clone" => log[k].args[5] = W(inputs.odinVersion)
        /\ ~Invoked("pull")
        /\ Precedes("clone", "build")
        /\ (PastJoin => Count("build") = 1 /\ outputs = << FALSE >>)
        /\ (aPc = "rejected" \/ bPc = "rejected" => ~Invoked("build"))
        /\ (aPc = "resolved" /\ bPc = "resolved" /\ runPc = "end" => PastJoin)

C3_Witness ==
    /\ Miss
    /\ restoredKey # NoKey
    /\ runPc = "end"
    /\ terminal = "DONE"
    /\ Invoked("build")

\* C4 as stated: with caching disabled the finished run has invoked git
\* clone, has neither queried the cache store nor invoked git pull, and has
\* invoked the build command.
C4_Original ==
    (CachingDisabled /\ runPc = "end") =>
        /\ Invoked("clone")
        /\ ~Invoked("restore")
        /\ ~Invoked("pull")
        /\ Invoked("build")

\* C4 amended: with caching disabled git clone is invoked as soon as the
\* restore/clone branch starts, the cache store is never queried and git
\* pull is never invoked; if the clone and the dependency installation both
\* succeed, run() goes on to invoke the build command; if either fails, the
\* build command is never invoked.
C4_DisabledCacheClonesAndBuilds ==
    CachingDisabled =>
        /\ (aPc # "idle" => Count("clone") = 1)
        /\ ~Invoked("restore")
        /\ ~Invoked("pull")
        /\ restoredKey = NoKey
        /\ (PastJoin => Count("build") = 1 /\ outputs = << FALSE >>)
        /\ (aPc = "rejected" \/ bPc = "rejected" => ~Invoked("build"))
        /\ (aPc = "resolved" /\ bPc = "resolved" /\ runPc = "end" => PastJoin)

C4_Witness ==
    /\ CachingDisabled
    /\ runPc = "end"
    /\ terminal = "DONE"
    /\ Invoked("build")

\* C5 as stated: when a confirmed hit occurs and the dependency
\* installation fails, the finished run has reported no failure and ends as
\* a successful cache hit.
C5_Original ==
    (ConfirmedHit /\ bPc = "rejected" /\ runPc = "end") =>
        /\ failures = << >>
        /\ terminal = "CONFIRMED_HIT"

\* C5 amended: when a confirmed hit occurs and the dependency installation
\* fails, the failure is not discarded: the finished run has called
\* setFailed once, with the installation's error, and ends FAILED, although
\* cache-hit true has been reported and the build command is not invoked.
C5_HitWithFailedInstallFails ==
    (ConfirmedHit /\ bPc = "rejected" /\ runPc = "end") =>
        /\ failures = << bErr >>
        /\ bErr # NoError
        /\ terminal = "FAILED"
        /\ outputs = << TRUE >>
        /\ ~Invoked("build")

C5_Witness ==
    /\ ConfirmedHit
    /\ bPc = "rejected"
    /\ bErr.kind = "Install"
    /\ runPc = "end"
    /\ failures = << bErr >>

\* C6 as stated: once a failure of one of the two branches has been
\* reported with setFailed, neither branch is still in progress.
C6_Original ==
    (failures # << >> /\ joinState = "rejected") =>
        /\ ~InProgress(aPc)
        /\ ~InProgress(bPc)

\* C6 amended: run() goes past the join on the success path (returns on a
\* hit, reports cache-hit false, starts the build) only when both branches
\* have completed successfully; a fatal failure of one branch is reported
\* by the very next step after that branch fails, whether or not the other
\* branch is still in progress, and no step of the other branch comes in
\* between.
C6_JoinWaitsOnSuccessOnly ==
    /\ [](\/ runPc = "build"
          \/ terminal \in {"CONFIRMED_HIT", "DONE"}
          \/ Contains(outputs, FALSE)
          => aPc = "resolved" /\ bPc = "resolved")
    /\ [](failures # << >> /\ config.ok /\ buildOutcome = NoOutcome
          => joinState = "rejected" /\ failures = << joinErr >>
               /\ (aPc = "rejected" \/ bPc = "rejected"))
    /\ [][(runPc = "join" /\ joinState = "rejected")
            => (failures' = << joinErr >> /\ aPc' = aPc /\ bPc' = bPc)]_vars

C6_Witness ==
    /\ failures = << UnsupportedError >>
    /\ bPc = "rejected"
    /\ aPc \in {"restoring", "pulling", "cloning"}

\* C7: on a platform other than darwin, linux and win32 the dependency
\* installation, once started, has failed with the unsupported-platform
\* error; brew, which and apt are never invoked and the dependency's path
\* is never added; the build command is never invoked; and the finished run
\* has reported failure (the unsupported-platform error, when the inputs
\* were obtained).
C7_UnsupportedPlatformFails ==
    platform \notin {"darwin", "linux", "win32"} =>
        /\ ~Invoked("brew") /\ ~Invoked("which") /\ ~Invoked("apt")
        /\ \A k \in DOMAIN log :
              log[k].op = "addPath" => log[k].args = << W(odinPath) >>
        /\ ~Invoked("build")
        /\ (bPc # "idle" => bPc = "rejected" /\ bErr = UnsupportedError)
        /\ (runPc \in {"join", "build", "end"} /\ config.ok => bPc = "rejected")
        /\ (runPc = "end" => terminal = "FAILED" /\ Len(failures) = 1)
        /\ (runPc = "end" /\ config.ok => failures = << UnsupportedError >>)

C7_Witness ==
    /\ platform = "freebsd"
    /\ runPc = "end"
    /\ failures = << UnsupportedError >>
    /\ ~InProgress(aPc)

\* C8: once the build command has returned, a nonzero exit code N means the
\* run ended FAILED with exactly one failure message, which embeds N; exit
\* code 0 means the run ended DONE with no failure reported.
C8_BuildExitCodeDecides ==
    buildOutcome # NoOutcome =>
        /\ runPc = "end"
        /\ IF buildOutcome.code # 0
           THEN /\ terminal = "FAILED"
                /\ Len(failures) = 1
                /\ failures[1].kind \in {"Build", "Exec"}
                /\ failures[1].code = buildOutcome.code
           ELSE /\ terminal = "DONE"
                /\ failures = << >>

C8_Witness ==
    /\ buildOutcome.settle = "resolve"
    /\ buildOutcome.code = MaxExitCode
    /\ terminal = "FAILED"
    /\ failures = << BuildError(MaxExitCode) >>

\* C9: when git clone, git pull or the dependency installation has ended in
\* a fatal error (its promise rejected), the build command is never invoked
\* and cache-hit false is never reported, and the finished run is FAILED
\* with setFailed called.
C9_BranchFailureFailsRun ==
    (aPc = "rejected" \/ bPc = "rejected") =>
        /\ ~Invoked("build")
        /\ ~Contains(outputs, FALSE)
        /\ ~Contains(savedState, "false")
        /\ terminal \in {"none", "FAILED"}
        /\ (runPc = "end" => terminal = "FAILED" /\ Len(failures) = 1)
        /\ runPc \in {"join", "end"}

C9_Witness ==
    /\ aPc = "rejected"
    /\ aErr.kind = "GitClone"
    /\ bPc = "resolved"
    /\ runPc = "end"
    /\ terminal = "FAILED"

\* C10: in every run that obtains its inputs the dependency installation is
\* started, with caching enabled or disabled and whatever the cache lookup
\* returns: it has been started whenever run() waits at the join or is
\* beyond it, and whenever the restore/clone branch has moved past its
\* first external operation; and at the step that starts it the
\* restore/clone branch is in progress.
C10_DependenciesAlwaysStarted ==
    /\ [](inputs # NoInputs /\ runPc \in {"join", "build", "end"}
            => bPc # "idle")
    /\ [](aPc \in {"pulling", "resolved", "rejected"} \/ restoredKey # NoKey
            => bPc # "idle")
    /\ [][(bPc = "idle" /\ bPc' # "idle") => InProgress(aPc')]_vars

C10_Witness ==
    /\ cacheCheck(inputs)
    /\ aPc = "pulling"
    /\ bPc \in {"brew", "which", "apt"}

\* C11: the build command is started only by a step taken when both
\* branches have completed successfully, so it is never running while the
\* restore/clone branch or the dependency installation is in progress.
C11_BuildAfterBothBranches ==
    /\ [](Invoked("build") \/ runPc = "build"
            => aPc = "resolved" /\ bPc = "resolved")
    /\ [][Count("build")' > Count("build")
            => (aPc = "resolved" /\ bPc = "resolved" /\ joinState = "fulfilled")]_vars

C11_Witness ==
    /\ runPc = "build"
    /\ aPc = "resolved"
    /\ bPc = "resolved"
    /\ installOutcome.settle = "resolve"

\* C12: there is no retry: cache restore, git clone, git pull, the binary
\* probe, brew install, apt install and the build command are each invoked
\* at most once in a run, also after they have failed.
C12_NoRetry ==
    \A op \in {"restore", "clone", "pull", "which", "brew", "apt", "build"} :
        Count(op) <= 1

C12_Witness ==
    /\ aPc = "rejected"
    /\ aErr.kind \in {"GitClone", "Exec"}
    /\ Count("clone") = 1
    /\ bPc = "rejected"
    /\ Count("apt") = 1
    /\ runPc = "end"

\* C13 as stated: on linux, once the probe has settled, the package manager
\* install has been invoked exactly when the binary did not resolve on the
\* execution path, and then with the two version-suffixed packages.
C13_Original ==
    (platform = "linux" /\ whichResult # "none") =>
        /\ (whichResult = "found" => ~Invoked("apt"))
        /\ (whichResult # "found" =>
              \E k \in DOMAIN log : log[k] = AptCall(inputs.llvmVersion))

\* C14: on a candidate hit (restored key equal to the requested key) git
\* clone is never invoked; a stale hit goes on with the pulled checkout.
C14_HitNeverClones ==
    CandidateHit =>
        /\ ~Invoked("clone")
        /\ Count("pull") = 1
        /\ aPc \in {"pulling", "resolved", "rejected"}

C14_Witness ==
    /\ StaleHit
    /\ runPc = "build"
    /\ Count("pull") = 1

\* C15: on darwin the dependency installation, once started, has added
\* /usr/local/opt/llvm@<llvm>/bin to the path and then invoked
\* `brew install llvm@<llvm>`, in every run; a nonzero exit of brew rejects
\* the installation with an error embedding the code, the finished run is
\* FAILED, and the path addition is still in effect.
C15_DarwinPathThenBrew ==
    (platform = "darwin" /\ bPc # "idle") =>
        /\ \E k \in DOMAIN log :
              /\ k + 1 \in DOMAIN log
              /\ log[k] = LlvmPathCall(inputs.llvmVersion)
              /\ log[k + 1] = BrewCall(inputs.llvmVersion)
        /\ Count("brew") = 1
        /\ ~Invoked("which") /\ ~Invoked("apt")
        /\ (bPc = "brew" <=> installOutcome = NoOutcome)
        /\ (installOutcome # NoOutcome /\ installOutcome.code # 0 =>
              /\ bPc = "rejected"
              /\ bErr.kind \in {"Install", "Exec"}
              /\ bErr.code = installOutcome.code
              /\ ~Invoked("build")
              /\ (runPc = "end" => terminal = "FAILED" /\ Len(failures) = 1))
        /\ (installOutcome # NoOutcome /\ installOutcome.code = 0 =>
              bPc = "resolved")

C15_Witness ==
    /\ platform = "darwin"
    /\ installOutcome.code = 1
    /\ runPc = "end"
    /\ failures = << bErr >>
    /\ Invoked("brew")

\* C16 as stated: once setFailed has been called, no external operation is
\* started and no cache-hit value is reported.
C16_Original ==
    [][failures # << >> => (log' = log /\ outputs' = outputs)]_vars

\* C16 amended: once setFailed has been called, run() itself takes no
\* further step: FAILED stays, no second failure is reported, the build
\* command is not started and cache-hit false is not reported; but a branch
\* that was still running is not cancelled: restoreCache may still start
\* git pull or git clone and report cache-hit true, and the linux
\* installation may still start apt.
C16_FailedStopsRunOnly ==
    [][failures # << >> =>
         /\ runPc' = "end" /\ (runPc = "end" => terminal' = "FAILED")
         /\ failures' = failures
         /\ Count("build")' = Count("build")
         /\ (outputs' # outputs => outputs' = Append(outputs, TRUE))
         /\ (log' # log =>
               /\ runPc = "end"
               /\ Len(log') = Len(log) + 1
               /\ log'[Len(log')].op \in {"pull", "clone", "apt"})]_vars

C16_Witness ==
    /\ failures = << UnsupportedError >>
    /\ outputs = << TRUE >>
    /\ Invoked("pull")

\* C17: cache-hit is reported at most once per run, so never both true and
\* false; true is reported only on a confirmed hit; and the saved state is
\* always the string of the output value.
C17_CacheHitReportedOnce ==
    /\ Len(outputs) <= 1
    /\ Len(savedState) = Len(outputs)
    /\ \A k \in DOMAIN outputs :
          savedState[k] = (IF outputs[k] THEN "true" ELSE "false")
    /\ (Contains(outputs, TRUE) => ConfirmedHit)
    /\ (Contains(outputs, FALSE) => ~ConfirmedHit)

C17_Witness ==
    /\ outputs = << FALSE >>
    /\ savedState = << "false" >>
    /\ StaleHit
    /\ runPc = "end"

\* C18: setFailed is called at most once per run, and when a branch has
\* failed it carries the error of the branch that failed first, also when
\* both branches fail.
C18_FailureReportedOnce ==
    /\ Len(failures) <= 1
    /\ Len(rejections) <= 2
    /\ (failures # << >> /\ rejections # << >> => failures = << rejections[1] >>)
    /\ (rejections # << >> /\ runPc = "end" => failures = << rejections[1] >>)

C18_Witness ==
    /\ Len(rejections) = 2
    /\ rejections[1] # rejections[2]
    /\ aErr = rejections[1]
    /\ bErr = rejections[2]
    /\ failures = << rejections[1] >>

====
